---- MODULE Spec2Model ----
(***************************************************************************)
(* A model of src/pcp/plot/pcp_plot.py: the parallel-coordinate plot       *)
(* builder _parallel_plot (PlotSpec), the widget generator _get_widgets    *)
(* (WidgetSpec) with the jslink it installs (LinkSpec), and the recursive  *)
(* walk _meta_widgets (WalkSpec).  The four specifications share the       *)
(* variables; each leaves the others' part of the state as it starts.      *)
(*                                                                         *)
(* Numbers.  Dataframe cells are integers.  A quotient is kept exactly as  *)
(* the pair [num, den]; den = 0 is the IEEE result of a division by zero   *)
(* (0/0 = NaN, x/0 = inf).  The y-range paddings -0.1 and 1.1 are kept in  *)
(* tenths.                                                                 *)
(*                                                                         *)
(* Objects.  Python names are references.  frames and series are the two   *)
(* heaps of dataframe and series objects; df and color are the local names *)
(* of _parallel_plot, holding the key of the object they are bound to.     *)
(***************************************************************************)
EXTENDS Integers, Sequences, FiniteSets, TLC

VARIABLES
    pc,              \* position inside _parallel_plot
    args,            \* the argument values as they were at the call
    frames,          \* dataframe objects: "raw" is the caller's df_raw
    series,          \* series objects: "arg" is the caller's color
    df,              \* local name df: the key of its dataframe object
    color,           \* local name color: the key of its series object
    cmap,            \* the LinearColorMapper
    data_source,     \* the ColumnDataSource columns xs, ys
    y_range,         \* p.y_range (start, end, bounds), in tenths
    extra_y_ranges,  \* p.extra_y_ranges: column -> Range1d, in tenths
    axes,            \* the LinearAxis objects added to the plot, in order
    categorical_columns, \* local name: the object-typed columns of df
    \* _get_widgets
    wpc,             \* position of the _get_widgets call
    model,           \* model.properties_with_values(): name -> value
    widgets,         \* the widgets of the returned Column, in order
    \* the links installed by w.jslink(model, value=p)
    widget_value,    \* linked property -> the widget's value
    model_value,     \* linked property -> the model property's value
    pending,         \* linked property -> change events of the widget not yet handled
    stale,           \* linked property -> the property was assigned since the link last ran
    \* _meta_widgets
    models,          \* the graph of models: node -> its attributes
    stack,           \* the call stack of _meta_widgets
    status,          \* "idle", "walking", "returned" or "raised"
    result           \* what the outermost call returned

plotVars == <<pc, args, frames, series, df, color, cmap, data_source,
              y_range, extra_y_ranges, axes, categorical_columns>>

widgetVars == <<wpc, model, widgets>>

linkVars == <<widget_value, model_value, pending, stale>>

walkVars == <<models, stack, status, result>>

vars == <<plotVars, widgetVars, linkVars, walkVars>>

-----------------------------------------------------------------------------
(* Bounds of the model *)

\* Numeric cells are drawn from 0..MaxVal.
MaxVal == 2

\* Row positions of the dataframe (npts = 3).
Rows == 1..3

\* Column labels of df_raw, in column order.
AllColumns == <<1, 2>>

\* The distinct labels an object column may hold; a cell of an object column
\* is an index into LabelStr, str(cell) is LabelStr[cell].
LabelStr == <<"a", "b", "c">>

-----------------------------------------------------------------------------
(* Helpers over sequences *)

Range(s) == {s[i] : i \in DOMAIN s}

SeqMin(s) == CHOOSE m \in Range(s) : \A x \in Range(s) : m <= x

SeqMax(s) == CHOOSE m \in Range(s) : \A x \in Range(s) : m >= x

Abs(x) == IF x < 0 THEN -x ELSE x

\* Series.unique(): the distinct values in order of first appearance.
Unique(s) ==
    LET F[i \in 0..Len(s)] ==
            IF i = 0 THEN <<>>
            ELSE IF s[i] \in Range(F[i-1]) THEN F[i-1]
                 ELSE Append(F[i-1], s[i])
    IN  F[Len(s)]

\* np.where(u == elem)[0].item(): the 0-based position of elem in u.
WhereItem(u, elem) == (CHOOSE i \in DOMAIN u : u[i] = elem) - 1

\* Series.apply(lambda elem: np.where(s.unique() == elem)[0].item())
EncodeSeries(s) ==
    [dtype |-> "int64",
     vals  |-> [r \in DOMAIN s.vals |-> WhereItem(Unique(s.vals), s.vals[r])]]

\* a / b in floating point, kept exactly; den = 0 is NaN or inf.
Div(a, b) == [num |-> a, den |-> b]

\* x expressed in tenths.
Tenths(x) == 10 * x

\* str(name) of a cell of an object column.
Str(v) == IF v \in DOMAIN LabelStr THEN LabelStr[v] ELSE "?"

-----------------------------------------------------------------------------
(* The inputs of _parallel_plot *)

NumColumns == [dtype : {"int64"}, vals : [Rows -> 0..MaxVal]]

ObjColumns == [dtype : {"object"}, vals : [Rows -> DOMAIN LabelStr]]

Frames == [columns : {AllColumns},
           col : [Range(AllColumns) -> NumColumns \cup ObjColumns]]

\* An optional argument is <<>> (None) or <<value>>.
DropArgs == {<<>>} \cup {<<{c}>> : c \in Range(AllColumns)}

\* color is None or a series holding the values of one column of df_raw.
ColorArgs(f) == {<<>>} \cup {<<f.col[c]>> : c \in Range(AllColumns)}

NoFrame == [columns |-> <<>>, col |-> <<>>]

NoSeries == [dtype |-> "none", vals |-> <<>>]

NoRange == [start |-> 0, end |-> 0, bounds |-> <<0, 0>>]

NoMapper == [low |-> 0, high |-> 0, palette |-> <<>>]

NoSource == [xs |-> <<>>, ys |-> <<>>, color |-> <<>>]

\* The parts of the state a specification does not use stay as they start.
PlotIdle ==
    /\ pc = "idle" /\ args = <<>> /\ frames = <<>> /\ series = <<>>
    /\ df = "none" /\ color = "none" /\ cmap = NoMapper
    /\ data_source = NoSource /\ y_range = NoRange
    /\ extra_y_ranges = <<>> /\ axes = <<>> /\ categorical_columns = <<>>

WidgetIdle == wpc = "idle" /\ model = <<>> /\ widgets = <<>>

LinkIdle ==
    /\ widget_value = <<>> /\ model_value = <<>>
    /\ pending = <<>> /\ stale = <<>>

WalkIdle == models = <<>> /\ stack = <<>> /\ status = "idle" /\ result = "none"

PlotInit ==
    /\ pc = "start"
    /\ \E f \in Frames, d \in DropArgs :
          \E c \in ColorArgs(f) :
             args = [df_raw |-> f, drop |-> d, color |-> c]
    /\ frames = [raw |-> args.df_raw, new |-> NoFrame]
    /\ series = [arg |-> IF args.color = <<>> THEN NoSeries ELSE args.color[1],
                 new |-> NoSeries]
    /\ df = "none"
    /\ color = IF args.color = <<>> THEN "none" ELSE "arg"
    /\ cmap = NoMapper
    /\ data_source = NoSource
    /\ y_range = NoRange
    /\ extra_y_ranges = <<>>
    /\ axes = <<>>
    /\ categorical_columns = <<>>
    /\ WidgetIdle /\ LinkIdle /\ WalkIdle

-----------------------------------------------------------------------------
(* _parallel_plot, lines 24-167 *)

\* DataFrame.drop(drop, axis=1): a new frame without the dropped columns.
DropColumns(f, d) ==
    LET keep == SelectSeq(f.columns, LAMBDA c : c \notin d)
    IN  [columns |-> keep, col |-> [c \in Range(keep) |-> f.col[c]]]

\* df = df_raw in place of df = df_raw.copy(): no copy when nothing is dropped.
DfBindingAliased(d) == IF d = <<>> THEN "raw" ELSE "new"

\* The object the local name df is bound to by lines 26-29: drop() and
\* copy() both return a new object.
DfBinding(d) == "new"

\* Lines 26-31.
Prepare ==
    /\ pc = "start"
    /\ df' = DfBinding(args.drop)
    /\ frames' = IF df' = "new"
                    THEN [frames EXCEPT !.new =
                            IF args.drop # <<>>
                              THEN DropColumns(frames.raw, args.drop[1])
                              ELSE frames.raw]
                    ELSE frames
    /\ pc' = "color"
    /\ UNCHANGED <<args, series, color, cmap, data_source, y_range,
                   extra_y_ranges, axes, categorical_columns>>
    /\ UNCHANGED <<widgetVars, linkVars, walkVars>>

\* df.shape[0]: every frame has the rows Rows.
npts == Cardinality(Rows)

ndims == Len(frames[df].columns)

\* LinearColorMapper(high=color.min(), low=color.max(), palette=palette)
ColorMapper(c, palette) ==
    [high |-> SeqMin(c.vals), low |-> SeqMax(c.vals), palette |-> palette]

\* Lines 33-39.
ColorStep ==
    /\ pc = "color"
    /\ LET c1 == IF color = "none"
                   THEN [dtype |-> "float64", vals |-> [r \in 1..npts |-> 1]]
                   ELSE series[color]
           c2 == IF c1.dtype = "object" THEN EncodeSeries(c1) ELSE c1
           rebound == color = "none" \/ c1.dtype = "object"
       IN  /\ series' = IF rebound THEN [series EXCEPT !.new = c2] ELSE series
           /\ color' = IF rebound THEN "new" ELSE color
           /\ cmap' = ColorMapper(c2, <<"#ff0000">>)
    /\ pc' = "encode"
    /\ UNCHANGED <<args, frames, df, data_source, y_range, extra_y_ranges,
                   axes, categorical_columns>>
    /\ UNCHANGED <<widgetVars, linkVars, walkVars>>

\* df.columns.where(df.dtypes == np.object_).dropna()
CategoricalColumns(f) ==
    SelectSeq(f.columns, LAMBDA c : f.col[c].dtype = "object")

\* Lines 40-44: df[col] = df[col].apply(...) writes into the object df names.
EncodeColumns ==
    /\ pc = "encode"
    /\ categorical_columns' = CategoricalColumns(frames[df])
    /\ frames' = [frames EXCEPT ![df].col =
                     [c \in DOMAIN @ |->
                        IF c \in Range(categorical_columns')
                          THEN EncodeSeries(@[c]) ELSE @[c]]]
    /\ pc' = "source"
    /\ UNCHANGED <<args, series, df, color, cmap, data_source, y_range,
                   extra_y_ranges, axes>>
    /\ UNCHANGED <<widgetVars, linkVars, walkVars>>

\* Dividing by df.max() in place of df.max() - df.min().
NormalizeCellByMax(v, mn, mx) == Div(v - mn, mx)

\* A guard that maps a single-valued column to 0.
NormalizeCellGuarded(v, mn, mx) ==
    IF mx = mn THEN Div(0, 1) ELSE Div(v - mn, mx - mn)

\* One cell of (df - df.min()) / (df.max() - df.min()).
NormalizeCell(v, mn, mx) == Div(v - mn, mx - mn)

\* Lines 46-52.
Ys(f) ==
    [r \in Rows |->
        [i \in DOMAIN f.columns |->
            LET vals == f.col[f.columns[i]].vals
            IN  NormalizeCell(vals[r], SeqMin(vals), SeqMax(vals))]]

\* np.arange(ndims)[None, :].repeat(npts, axis=0)
Xs(f) == [r \in 1..npts |-> [i \in 1..Len(f.columns) |-> i - 1]]

\* Lines 46-75: the data source and the figure with its y range.
BuildSource ==
    /\ pc = "source"
    /\ data_source' = [xs |-> Xs(frames[df]), ys |-> Ys(frames[df]),
                       color |-> series[color].vals]
    /\ y_range' = [start |-> 0, end |-> Tenths(1), bounds |-> <<-1, 11>>]
    /\ pc' = "axes"
    /\ UNCHANGED <<args, frames, series, df, color, cmap, extra_y_ranges,
                   axes, categorical_columns>>
    /\ UNCHANGED <<widgetVars, linkVars, walkVars>>

\* Lines 80-84, in tenths.
BoundMin(start, end) ==
    Tenths(start) + Abs(end - start) * (y_range.bounds[1] - y_range.start)

\* The upper padding taken from bounds[1] alone.
BoundMaxNoEnd(start, end) ==
    Tenths(end) + Abs(end - start) * y_range.bounds[2]

BoundMax(start, end) ==
    Tenths(end) + Abs(end - start) * (y_range.bounds[2] - y_range.end)

ExtraRange(vals) ==
    LET start == SeqMin(vals)
        end == SeqMax(vals)
    IN  [start |-> BoundMin(start, end), end |-> BoundMax(start, end),
         bounds |-> <<BoundMin(start, end), BoundMax(start, end)>>]

\* np.linspace(start, end, 8)
Linspace(start, end) ==
    [i \in 1..8 |-> Div(7 * start + (i - 1) * (end - start), 7)]

\* np.arange(n)
Arange(n) == [i \in 1..n |-> Div(i - 1, 1)]

\* Line 90: np.arange(end + 1)
CategoricalTicksShort(end) == Arange(end)

CategoricalTicks(end) == Arange(end + 1)

\* np.unique(s): the distinct values in ascending order.
SortedUnique(s) ==
    LET S == Range(s)
    IN  [i \in 1..Cardinality(S) |->
            CHOOSE x \in S : Cardinality({y \in S : y < x}) = i - 1]

\* The labels enumerated in sorted order in place of order of appearance.
LabelOverridesSorted(rawvals) ==
    LET u == SortedUnique(rawvals)
    IN  [i \in 0..(Len(u) - 1) |-> Str(u[i + 1])]

\* Lines 91-93: {i: str(name) for i, name in enumerate(df_raw[col].unique())}
LabelOverrides(rawvals) ==
    LET u == Unique(rawvals)
    IN  [i \in 0..(Len(u) - 1) |-> Str(u[i + 1])]

\* Lines 86-104: the axis of the column at position index.
Axis(index, col) ==
    LET vals == frames[df].col[col].vals
        start == SeqMin(vals)
        end == SeqMax(vals)
        categorical == col \in Range(categorical_columns)
    IN  [fixed_location |-> index,
         y_range_name |-> col,
         ticks |-> IF categorical THEN CategoricalTicks(end) ELSE Linspace(start, end),
         major_label_overrides |->
            IF categorical THEN LabelOverrides(frames.raw.col[col].vals)
            ELSE <<>>]

\* Lines 77-104: the loop over df.columns.
BuildAxes ==
    /\ pc = "axes"
    /\ extra_y_ranges' = [c \in Range(frames[df].columns) |->
                             ExtraRange(frames[df].col[c].vals)]
    /\ axes' = [i \in 1..ndims |-> Axis(i - 1, frames[df].columns[i])]
    /\ pc' = "finish"
    /\ UNCHANGED <<args, frames, series, df, color, cmap, data_source,
                   y_range, categorical_columns>>
    /\ UNCHANGED <<widgetVars, linkVars, walkVars>>

\* Lines 106-167: renderers and tools; the y range is set to its bounds.
Finish ==
    /\ pc = "finish"
    /\ y_range' = [y_range EXCEPT !.start = y_range.bounds[1],
                                  !.end = y_range.bounds[2]]
    /\ pc' = "done"
    /\ UNCHANGED <<args, frames, series, df, color, cmap, data_source,
                   extra_y_ranges, axes, categorical_columns>>
    /\ UNCHANGED <<widgetVars, linkVars, walkVars>>

PlotNext ==
    \/ Prepare
    \/ ColorStep
    \/ EncodeColumns
    \/ BuildSource
    \/ BuildAxes
    \/ Finish

PlotSpec == PlotInit /\ [][PlotNext]_vars

-----------------------------------------------------------------------------
(* _get_widgets, lines 200-241 *)

\* A property name is the sequence of its characters.
Alphabet ==
    <<"_", "a", "b", "c", "d", "e", "f", "g", "h", "i", "j", "k", "l", "m",
      "n", "o", "p", "q", "r", "s", "t", "u", "v", "w", "x", "y", "z">>

\* The code point order of the characters used in names ("_" < "a").
Ord(ch) == CHOOSE i \in DOMAIN Alphabet : Alphabet[i] = ch

\* a < b for Python strings: lexicographic by code point.
StrLess(a, b) ==
    \E i \in 1..(Len(a) + 1) :
        /\ i <= Len(b)
        /\ \A j \in 1..(i - 1) : a[j] = b[j]
        /\ (i = Len(a) + 1) \/ (Ord(a[i]) < Ord(b[i]))

\* sub in p
Contains(p, sub) ==
    \E i \in 0..(Len(p) - Len(sub)) : SubSeq(p, i + 1, i + Len(sub)) = sub

\* p.endswith(suf)
EndsWith(p, suf) ==
    /\ Len(p) >= Len(suf)
    /\ SubSeq(p, Len(p) - Len(suf) + 1, Len(p)) = suf

\* The property names a model may have, in the order properties_with_values()
\* yields them: line_width, line_alpha, fill_color, marker, line_cap, size,
\* text, axis_label, line_dash, visible, alpha_dash.
PropertyNames ==
    <<<<"l", "i", "n", "e", "_", "w", "i", "d", "t", "h">>,
      <<"l", "i", "n", "e", "_", "a", "l", "p", "h", "a">>,
      <<"f", "i", "l", "l", "_", "c", "o", "l", "o", "r">>,
      <<"m", "a", "r", "k", "e", "r">>,
      <<"l", "i", "n", "e", "_", "c", "a", "p">>,
      <<"s", "i", "z", "e">>,
      <<"t", "e", "x", "t">>,
      <<"a", "x", "i", "s", "_", "l", "a", "b", "e", "l">>,
      <<"l", "i", "n", "e", "_", "d", "a", "s", "h">>,
      <<"v", "i", "s", "i", "b", "l", "e">>,
      <<"a", "l", "p", "h", "a", "_", "d", "a", "s", "h">>>>

\* A property has at most MaxProps of these names set.
MaxProps == 2

\* A value that is not a dict: None, a string (the empty string is falsy) or
\* a list.
PlainValues ==
    {[tag |-> "None", val |-> ""], [tag |-> "str", val |-> ""],
     [tag |-> "str", val |-> "red"], [tag |-> "list", val |-> ""]}

\* A property value: a plain value (wrap "none"), a dict holding the plain
\* value under the key "value" (wrap "value"), or a dict without that key.
PropertyValues ==
    {[wrap |-> w, tag |-> v.tag, val |-> v.val] :
        w \in {"none", "value"}, v \in PlainValues}
    \cup {[wrap |-> "field", tag |-> "None", val |-> ""]}

WidgetInit ==
    /\ wpc = "call"
    /\ \E S \in SUBSET Range(PropertyNames) :
          /\ Cardinality(S) <= MaxProps
          /\ model \in [S -> PropertyValues]
    /\ widgets = <<>>
    /\ PlotIdle /\ LinkIdle /\ WalkIdle

\* v in list(NamedColor)
NamedColor(v) == v.tag = "str" /\ v.val = "red"

\* v or patterns[0], with patterns = list(LineDash)
OrFirstPattern(v) ==
    IF v.tag = "str" /\ v.val = "" THEN [tag |-> "str", val |-> "solid"] ELSE v

\* Lines 205-211: the value after unwrapping; <<>> when the property is skipped.
Unwrapped(v0) ==
    LET v == [tag |-> v0.tag, val |-> v0.val]
    IN  IF v0.wrap = "field" THEN <<>>
        ELSE IF v.tag = "None" THEN <<>>
        ELSE <<v>>

Widget(cls, p, v) == [name |-> p, value |-> v, class |-> cls, linked |-> p]

\* Lines 213-240 for one property: <<>> or the one widget created and linked.
WidgetFor(p, v) ==
    IF Contains(p, <<"a", "l", "p", "h", "a">>)
      THEN <<Widget("FloatSlider", p, v)>>
    ELSE IF Contains(p, <<"c", "o", "l", "o", "r">>)
      THEN IF NamedColor(v) THEN <<Widget("Select", p, v)>>
           ELSE <<Widget("ColorPicker", p, v)>>
    ELSE IF EndsWith(p, <<"w", "i", "d", "t", "h">>)
      THEN <<Widget("FloatSlider", p, v)>>
    ELSE IF Contains(p, <<"m", "a", "r", "k", "e", "r">>)
      THEN <<Widget("Select", p, v)>>
    ELSE IF EndsWith(p, <<"c", "a", "p">>)
      THEN <<Widget("Select", p, v)>>
    ELSE IF p = <<"s", "i", "z", "e">>
      THEN <<Widget("FloatSlider", p, v)>>
    ELSE IF EndsWith(p, <<"t", "e", "x", "t">>)
            \/ EndsWith(p, <<"l", "a", "b", "e", "l">>)
      THEN <<Widget("TextInput", p, v)>>
    ELSE IF EndsWith(p, <<"d", "a", "s", "h">>)
      THEN IF v.tag # "list" THEN <<Widget("Select", p, OrFirstPattern(v))>>
           ELSE <<>>
    ELSE <<>>

\* Lines 201-240: the list widgets after the loop over the properties.
Created(m) ==
    LET order == SelectSeq(PropertyNames, LAMBDA p : p \in DOMAIN m)
        F[i \in 0..Len(order)] ==
            IF i = 0 THEN <<>>
            ELSE LET u == Unwrapped(m[order[i]])
                 IN  IF u = <<>> THEN F[i-1]
                     ELSE F[i-1] \o WidgetFor(order[i], u[1])
    IN  F[Len(order)]

\* The widgets returned in the order they were created.
Unsorted(ws) == ws

\* Line 241: sorted(widgets, key=lambda w: w.name); the names are distinct.
SortedByName(ws) ==
    [i \in 1..Len(ws) |->
        CHOOSE w \in Range(ws) :
            Cardinality({x \in Range(ws) : StrLess(x.name, w.name)}) = i - 1]

GetWidgets ==
    /\ wpc = "call"
    /\ widgets' = SortedByName(Created(model))
    /\ wpc' = "returned"
    /\ UNCHANGED model
    /\ UNCHANGED <<plotVars, linkVars, walkVars>>

WidgetNext == GetWidgets

WidgetSpec == WidgetInit /\ [][WidgetNext]_vars

-----------------------------------------------------------------------------
(* w.jslink(model, value=p), line 239 *)

\* The properties that got a widget, each linked by line 239.
LinkedProps == {"line_alpha", "line_width"}

\* Widget and property values are drawn from 0..MaxSetting.
MaxSetting == 2

\* At most MaxPending change events of one widget wait to be handled.
MaxPending == 2

\* The widget is created with value=v, the property's value.
LinkInit ==
    /\ \E f \in [LinkedProps -> 0..MaxSetting] :
          widget_value = f /\ model_value = f
    /\ pending = [p \in LinkedProps |-> 0]
    /\ stale = [p \in LinkedProps |-> FALSE]
    /\ PlotIdle /\ WidgetIdle /\ WalkIdle

\* w.jslink(model, value=p) passes no bidirectional argument: jslink's
\* default links the source (the widget) to the target (the model) only.
Bidirectional == FALSE

\* A link that writes nothing to its target.
LinkedValueNone(p) == model_value[p]

\* What the link writes to the target property: the source widget's value.
LinkedValue(p) == widget_value[p]

\* The widget's value changes (the user moves it, or code assigns it): a
\* change event of the widget is queued for the link.
ChangeWidget ==
    /\ \E p \in LinkedProps, v \in 0..MaxSetting :
          /\ v # widget_value[p]
          /\ pending[p] < MaxPending
          /\ widget_value' = [widget_value EXCEPT ![p] = v]
          /\ pending' = [pending EXCEPT ![p] = @ + 1]
    /\ UNCHANGED <<model_value, stale>>
    /\ UNCHANGED <<plotVars, widgetVars, walkVars>>

\* The link's callback handles one change event of the widget: jslink's
\* default is one-directional, from the widget (source) to the model (target).
RunLink ==
    /\ \E p \in LinkedProps :
          /\ pending[p] > 0
          /\ model_value' = [model_value EXCEPT ![p] = LinkedValue(p)]
          /\ pending' = [pending EXCEPT ![p] = @ - 1]
          /\ stale' = [stale EXCEPT ![p] = FALSE]
    /\ UNCHANGED widget_value
    /\ UNCHANGED <<plotVars, widgetVars, walkVars>>

\* The model property is assigned: the widget follows only under a
\* bidirectional link.
ChangeProperty ==
    /\ \E p \in LinkedProps, v \in 0..MaxSetting :
          /\ v # model_value[p]
          /\ model_value' = [model_value EXCEPT ![p] = v]
          /\ stale' = [stale EXCEPT ![p] = TRUE]
          /\ widget_value' = IF Bidirectional
                               THEN [widget_value EXCEPT ![p] = v]
                               ELSE widget_value
    /\ UNCHANGED pending
    /\ UNCHANGED <<plotVars, widgetVars, walkVars>>

LinkNext == ChangeWidget \/ RunLink \/ ChangeProperty

LinkSpec == LinkInit /\ [][LinkNext]_vars

-----------------------------------------------------------------------------
(* _meta_widgets, lines 170-197 *)

\* The models of the graph; the walk starts at Root.
Nodes == 1..3

Root == 1

\* A graph has at most MaxEdges links between models.
MaxEdges == 3

\* The depth of nested calls at which Python raises RecursionError.  It is
\* above the depth any acyclic graph over Nodes needs.
RecursionLimit == 4

\* A link: a model-valued property (kind "prop"), or membership in the
\* renderers, axis or grid list of the root (a figure).
PossibleEdges ==
    {[src |-> a, kind |-> "prop", dst |-> b] : a \in Nodes, b \in Nodes}
    \cup {[src |-> Root, kind |-> k, dst |-> b] :
            k \in {"renderers", "axis", "grid"}, b \in Nodes}

\* The set S of nodes as a list in ascending order.
Ascending(S) ==
    [i \in 1..Cardinality(S) |->
        CHOOSE x \in S : Cardinality({y \in S : y < x}) = i - 1]

\* The models that the links E list under kind k of model n.
Targets(E, n, k) ==
    Ascending({e.dst : e \in {x \in E : x.src = n /\ x.kind = k}})

\* A model: whether _get_widgets finds a widget for it (styled), its
\* model-valued properties, and its renderers, axis and grid lists (empty
\* when the model has no such attribute).
WalkInit ==
    /\ \E E \in SUBSET PossibleEdges, W \in SUBSET Nodes :
          /\ Cardinality(E) <= MaxEdges
          /\ models = [n \in Nodes |->
                         [styled |-> n \in W,
                          prop |-> Targets(E, n, "prop"),
                          renderers |-> Targets(E, n, "renderers"),
                          axis |-> Targets(E, n, "axis"),
                          grid |-> Targets(E, n, "grid")]]
    /\ stack = <<>>
    /\ status = "idle"
    /\ result = "none"
    /\ PlotIdle /\ WidgetIdle /\ LinkIdle

\* zip("XY", l): at most the first two.
ZipXY(l) == SubSeq(l, 1, IF Len(l) < 2 THEN Len(l) ELSE 2)

Tag(k, l) == [i \in DOMAIN l |-> [kind |-> k, node |-> l[i]]]

\* The recursive calls of one invocation, in order: lines 175-181, 183-186,
\* 187-189, 190-192.
Calls(n) ==
    Tag("prop", models[n].prop)
    \o Tag("renderers", models[n].renderers)
    \o Tag("axis", ZipXY(models[n].axis))
    \o Tag("grid", ZipXY(models[n].grid))

\* Lines 171-174: a new invocation, with the tab of the model's own widgets.
Frame(n) ==
    [node |-> n, next |-> 1, ntabs |-> IF models[n].styled THEN 1 ELSE 0]

\* Lines 193-197.
ReturnValue(f) ==
    IF ~models[f.node].styled /\ ~(f.ntabs > 0) THEN "None"
    ELSE IF ~(f.ntabs > 1) THEN "tab"
    ELSE "Tabs"

\* A call that passes the model itself in place of the linked model.
CalleeSelf(n, c) == n

\* The argument of the recursive call made by model n for its link c.
Callee(n, c) == c.node

\* The outermost call _meta_widgets(model).
CallRoot ==
    /\ status = "idle"
    /\ stack' = <<Frame(Root)>>
    /\ status' = "walking"
    /\ UNCHANGED <<models, result>>
    /\ UNCHANGED <<plotVars, widgetVars, linkVars>>

Top == stack[Len(stack)]

\* Lines 179, 186, 189, 192: the next recursive call.
Recurse ==
    /\ status = "walking"
    /\ Top.next <= Len(Calls(Top.node))
    /\ Len(stack) < RecursionLimit
    /\ stack' = Append(stack, Frame(Callee(Top.node, Calls(Top.node)[Top.next])))
    /\ UNCHANGED <<models, status, result>>
    /\ UNCHANGED <<plotVars, widgetVars, linkVars>>

\* The next recursive call exceeds the recursion limit: RecursionError is
\* raised and, caught nowhere, ends the outermost call.
Overflow ==
    /\ status = "walking"
    /\ Top.next <= Len(Calls(Top.node))
    /\ Len(stack) >= RecursionLimit
    /\ stack' = <<>>
    /\ status' = "raised"
    /\ UNCHANGED <<models, result>>
    /\ UNCHANGED <<plotVars, widgetVars, linkVars>>

\* Lines 193-197, then the caller's tabs.append: a property's subtabs are
\* appended unless None (line 180), a list member's always.
Return ==
    /\ status = "walking"
    /\ Top.next > Len(Calls(Top.node))
    /\ IF Len(stack) = 1
         THEN /\ stack' = <<>>
              /\ status' = "returned"
              /\ result' = ReturnValue(Top)
         ELSE LET caller == stack[Len(stack) - 1]
                  call == Calls(caller.node)[caller.next]
                  kept == ~(call.kind = "prop" /\ ReturnValue(Top) = "None")
              IN  /\ stack' = [SubSeq(stack, 1, Len(stack) - 1)
                                 EXCEPT ![Len(stack) - 1] =
                                    [caller EXCEPT !.next = @ + 1,
                                                   !.ntabs = IF kept THEN @ + 1 ELSE @]]
                  /\ UNCHANGED <<status, result>>
    /\ UNCHANGED models
    /\ UNCHANGED <<plotVars, widgetVars, linkVars>>

WalkNext == CallRoot \/ Recurse \/ Overflow \/ Return

\* The interpreter runs the call to its end: a step that can be taken is taken.
WalkSpec == WalkInit /\ [][WalkNext]_vars /\ WF_vars(WalkNext)

-----------------------------------------------------------------------------
(* Properties of _meta_widgets *)

\* The models the walk calls from model n.
Callees(n) == {Calls(n)[i].node : i \in DOMAIN Calls(n)}

\* Some chain of k nested calls starts at model n.
RECURSIVE Nests(_, _)
Nests(n, k) == k = 0 \/ \E c \in Callees(n) : Nests(c, k - 1)

\* A model reachable from the root reaches itself: the calls nest deeper
\* than there are models.
Cyclic == Nests(Root, Cardinality(Nodes))

\* The steps an invocation on model n still takes from its i-th recursive
\* call on: each call, all the steps of each callee, and its own return.
\* Defined on a graph without a reachable cycle.
RECURSIVE StepsFrom(_, _)
StepsFrom(n, i) ==
    IF i > Len(Calls(n)) THEN 1
    ELSE 1 + StepsFrom(Calls(n)[i].node, 1) + StepsFrom(n, i + 1)

\* The steps the frames stack[1..k] still take; all but the top one wait
\* for the call they made.
RECURSIVE StepsOfStack(_)
StepsOfStack(k) ==
    IF k = 0 THEN 0
    ELSE StepsOfStack(k - 1)
         + StepsFrom(stack[k].node,
                     IF k = Len(stack) THEN stack[k].next ELSE stack[k].next + 1)

\* The steps left before the outermost call has returned.
StepsLeft ==
    IF status = "idle" THEN 1 + StepsFrom(Root, 1)
    ELSE IF status = "walking" THEN StepsOfStack(Len(stack))
    ELSE 0

\* The walk has returned or can take a step: it has not ended short of its
\* return.
ReturnedOrRunning == status = "returned" \/ ENABLED WalkNext

\* C9 as stated: on every finite graph the walk terminates and returns; it
\* never ends in any other way than by returning.
C9_WalkReturns == ReturnedOrRunning

\* C9 as amended: on every finite graph without a cycle reachable from the
\* root the walk terminates and returns: it never ends short of its return,
\* and every step lowers the finite number of steps left.
C9_AcyclicWalkReturns ==
    /\ [](~Cyclic => ReturnedOrRunning)
    /\ [][~Cyclic => (StepsLeft' < StepsLeft /\ StepsLeft' >= 0)]_vars

\* The walk returned from a graph in which one model is reached along two
\* paths of different length.
C9_Witness ==
    /\ status = "returned"
    /\ ~Cyclic
    /\ \A n \in Nodes : models[n].styled
    /\ \E a, b \in Nodes :
          /\ a # b
          /\ {a, b} \subseteq Callees(Root)
          /\ b \in Callees(a)

-----------------------------------------------------------------------------
(* Properties of _get_widgets and of its links *)

\* C1 as stated: once propagation has run (no change event is waiting), the
\* widget's value and the property's value are equal.
C1_Bidirectional ==
    \A p \in LinkedProps :
        pending[p] = 0 => widget_value[p] = model_value[p]

\* C1 as amended: the link runs from the widget to the property only.  Once
\* propagation has run, the property equals the widget's value unless the
\* property was assigned after the link last ran.
C1_WidgetReachesProperty ==
    \A p \in LinkedProps :
        (pending[p] = 0 /\ ~stale[p]) => model_value[p] = widget_value[p]

\* A widget was changed and the link has run: both hold the new value, while
\* the other property was assigned and its widget did not follow.
C1_Witness ==
    /\ widget_value["line_alpha"] = 2 /\ model_value["line_alpha"] = 2
    /\ pending["line_alpha"] = 0 /\ ~stale["line_alpha"]
    /\ stale["line_width"] /\ pending["line_width"] = 0
    /\ widget_value["line_width"] # model_value["line_width"]

Plain(v0) == [tag |-> v0.tag, val |-> v0.val]

\* The name falls in a style category; the dash category counts for a
\* non-list value only.
Styled(p, v) ==
    \/ Contains(p, <<"a", "l", "p", "h", "a">>)
    \/ Contains(p, <<"c", "o", "l", "o", "r">>)
    \/ EndsWith(p, <<"w", "i", "d", "t", "h">>)
    \/ Contains(p, <<"m", "a", "r", "k", "e", "r">>)
    \/ EndsWith(p, <<"c", "a", "p">>)
    \/ p = <<"s", "i", "z", "e">>
    \/ EndsWith(p, <<"t", "e", "x", "t">>)
    \/ EndsWith(p, <<"l", "a", "b", "e", "l">>)
    \/ (EndsWith(p, <<"d", "a", "s", "h">>) /\ v.tag # "list")

\* The name reaches the dash test: it ends with "dash" and is in no category
\* tested before.
DashOnly(p) ==
    /\ EndsWith(p, <<"d", "a", "s", "h">>)
    /\ ~Styled(p, [tag |-> "list", val |-> ""])

\* The properties that get a widget.
Surfaced ==
    {p \in DOMAIN model :
        /\ model[p].wrap # "field"
        /\ model[p].tag # "None"
        /\ Styled(p, Plain(model[p]))}

\* One widget per surfaced property and no other, in ascending order of name.
OneWidgetEachSorted ==
    /\ Len(widgets) = Cardinality(Surfaced)
    /\ {widgets[i].name : i \in DOMAIN widgets} = Surfaced
    /\ \A i, j \in DOMAIN widgets :
          i < j => StrLess(widgets[i].name, widgets[j].name)

\* C8 as stated: one widget per surfaced property and no other, each with
\* the property's name and its current (unwrapped) value, sorted by name.
C8_WidgetsCarryValue ==
    wpc = "returned" =>
        /\ OneWidgetEachSorted
        /\ \A i \in DOMAIN widgets :
              widgets[i].value = Plain(model[widgets[i].name])

\* C8 as amended: as stated, except that the widget of a dash property whose
\* value is falsy carries the first dash pattern, "solid".
C8_WidgetsCarryValueOrSolid ==
    wpc = "returned" =>
        /\ OneWidgetEachSorted
        /\ \A i \in DOMAIN widgets :
              LET p == widgets[i].name
                  v == Plain(model[p])
              IN  /\ widgets[i].linked = p
                  /\ widgets[i].value =
                        IF DashOnly(p) /\ v = [tag |-> "str", val |-> ""]
                          THEN [tag |-> "str", val |-> "solid"]
                          ELSE v

\* Two widgets returned in an order other than the one they were created
\* in, the first a dash widget carrying "solid" for an empty value.
C8_Witness ==
    /\ wpc = "returned"
    /\ Len(widgets) = 2
    /\ widgets[1].name = <<"l", "i", "n", "e", "_", "d", "a", "s", "h">>
    /\ widgets[1].value.val = "solid"
    /\ widgets[2].name = <<"l", "i", "n", "e", "_", "w", "i", "d", "t", "h">>
    /\ model[widgets[2].name].wrap = "value"

-----------------------------------------------------------------------------
(* Properties of _parallel_plot *)

\* The columns the call retains, from its arguments.
Retained ==
    SelectSeq(AllColumns,
              LAMBDA c : args.drop = <<>> \/ c \notin args.drop[1])

RawVals(c) == args.df_raw.col[c].vals

IsCategorical(c) == args.df_raw.col[c].dtype = "object"

Distinct(c) == Cardinality(Range(RawVals(c)))

\* The values of column c as plotted (after the categorical encoding).
Plotted(c) == frames[df].col[c].vals

SourceBuilt == pc \in {"axes", "finish", "done"}

AxesBuilt == pc \in {"finish", "done"}

\* C2: every retained categorical column with k distinct values has an axis
\* whose ticks are exactly the integers 0..k-1 and which carries exactly k
\* tick-label overrides.
C2_CategoricalTicks ==
    AxesBuilt =>
        \A i \in DOMAIN Retained :
            LET c == Retained[i]
                k == Distinct(c)
            IN  IsCategorical(c) =>
                  /\ i \in DOMAIN axes
                  /\ axes[i].y_range_name = c
                  /\ Len(axes[i].ticks) = k
                  /\ \A j \in 1..k : axes[i].ticks[j] = Div(j - 1, 1)
                  /\ Cardinality(DOMAIN axes[i].major_label_overrides) = k

\* A finished call with a categorical column holding a repeated label.
C2_Witness ==
    /\ pc = "done"
    /\ \E i \in DOMAIN Retained :
          /\ IsCategorical(Retained[i])
          /\ Distinct(Retained[i]) = 2
          /\ Len(axes[i].ticks) = 2

\* C3: every row's xs is 0..ndims-1 and its ys has length ndims; in a column
\* with min < max each y is (v - min)/(max - min), lies in [0, 1], is 0 on the
\* rows holding the minimum and 1 on the rows holding the maximum.
C3_MinMaxNormalized ==
    SourceBuilt =>
        \A r \in Rows :
            /\ Len(data_source.ys[r]) = Len(Retained)
            /\ data_source.xs[r] = [i \in 1..Len(Retained) |-> i - 1]
            /\ \A i \in DOMAIN Retained :
                  LET vals == Plotted(Retained[i])
                      mn == SeqMin(vals)
                      mx == SeqMax(vals)
                      y == data_source.ys[r][i]
                  IN  mn < mx =>
                        /\ y.den > 0
                        /\ y.num * (mx - mn) = (vals[r] - mn) * y.den
                        /\ 0 <= y.num /\ y.num <= y.den
                        /\ (vals[r] = mn) => y.num = 0
                        /\ (vals[r] = mx) => y.num = y.den

\* A finished call with two retained columns where a normalized value lies
\* strictly between 0 and 1.
C3_Witness ==
    /\ pc = "done"
    /\ Len(Retained) = 2
    /\ \E r \in Rows, i \in DOMAIN Retained :
          /\ 0 < data_source.ys[r][i].num
          /\ data_source.ys[r][i].num < data_source.ys[r][i].den

\* C4: the caller's df_raw and color hold, at every point of the call and
\* after it, the values they held when the call was made.
C4_InputsUntouched ==
    /\ frames.raw = args.df_raw
    /\ args.color # <<>> => series.arg = args.color[1]

\* A finished call without drop, with a categorical column encoded and a
\* categorical color encoded.
C4_Witness ==
    /\ pc = "done"
    /\ args.drop = <<>>
    /\ categorical_columns # <<>>
    /\ args.color # <<>>
    /\ args.color[1].dtype = "object"
    /\ series.new.dtype = "int64"

\* C5: in a retained column with a single distinct value every y is a
\* division by zero (no defined value in [0, 1]); in a column with at least
\* two distinct values every y is a defined value in [0, 1].
C5_DegenerateColumn ==
    SourceBuilt =>
        \A r \in Rows, i \in DOMAIN Retained :
            LET y == data_source.ys[r][i]
            IN  IF Distinct(Retained[i]) = 1
                  THEN y.den = 0
                  ELSE y.den > 0 /\ 0 <= y.num /\ y.num <= y.den

\* A finished call with one single-valued column beside a column with
\* several values.
C5_Witness ==
    /\ pc = "done"
    /\ \E i, j \in DOMAIN Retained :
          /\ Distinct(Retained[i]) = 1
          /\ Distinct(Retained[j]) > 1
          /\ data_source.ys[1][i].den = 0

\* The position of the first appearance of the value of row r.
FirstRow(c, r) ==
    CHOOSE q \in Rows :
        /\ RawVals(c)[q] = RawVals(c)[r]
        /\ \A p \in Rows : RawVals(c)[p] = RawVals(c)[r] => q <= p

\* C6: a categorical value is encoded as the index of its first appearance
\* among the distinct values (equal values equal codes, distinct values
\* distinct codes, the codes are 0..k-1), and the tick-label override at code
\* i is the string of the original value encoded as i.
C6_EncodingMatchesLabels ==
    \A i \in DOMAIN Retained :
        LET c == Retained[i]
        IN  IsCategorical(c) =>
              /\ SourceBuilt =>
                    /\ \A r \in Rows :
                          Plotted(c)[r] =
                            Cardinality({RawVals(c)[q] :
                                          q \in {p \in Rows : p < FirstRow(c, r)}})
                    /\ \A r, q \in Rows :
                          (RawVals(c)[r] = RawVals(c)[q])
                             <=> (Plotted(c)[r] = Plotted(c)[q])
                    /\ Range(Plotted(c)) = 0..(Distinct(c) - 1)
              /\ AxesBuilt =>
                    \A r \in Rows :
                        /\ Plotted(c)[r] \in DOMAIN axes[i].major_label_overrides
                        /\ axes[i].major_label_overrides[Plotted(c)[r]]
                              = LabelStr[RawVals(c)[r]]

\* A finished call with a categorical column whose labels do not appear in
\* ascending order.
C6_Witness ==
    /\ pc = "done"
    /\ \E i \in DOMAIN Retained :
          /\ IsCategorical(Retained[i])
          /\ RawVals(Retained[i])[1] > RawVals(Retained[i])[2]
          /\ axes[i].major_label_overrides[0] = LabelStr[RawVals(Retained[i])[1]]

\* C7: one range and one axis per retained column, the axis of the column at
\* position i fixed at x = i; for a column with min < max the range is
\* [min - 0.1(max-min), max + 0.1(max-min)], the final y range is [-0.1, 1.1],
\* and every raw value sits at the same relative height in its column's range
\* as its normalized value does in the y range.
C7_RangesAligned ==
    pc = "done" =>
        /\ y_range.start = -1 /\ y_range.end = 11
        /\ DOMAIN extra_y_ranges = Range(Retained)
        /\ Len(axes) = Len(Retained)
        /\ \A i \in DOMAIN Retained :
              LET c == Retained[i]
                  vals == Plotted(c)
                  mn == SeqMin(vals)
                  mx == SeqMax(vals)
                  rg == extra_y_ranges[c]
              IN  /\ axes[i].fixed_location = i - 1
                  /\ axes[i].y_range_name = c
                  /\ mn < mx =>
                        /\ rg.start = 10 * mn - (mx - mn)
                        /\ rg.end = 10 * mx + (mx - mn)
                        /\ \A r \in Rows :
                              LET y == data_source.ys[r][i]
                              IN  (10 * vals[r] - rg.start)
                                     * (y_range.end - y_range.start) * y.den
                                  = (10 * y.num - y_range.start * y.den)
                                     * (rg.end - rg.start)

\* A finished call with two axes and a column holding a value strictly
\* between its minimum and its maximum.
C7_Witness ==
    /\ pc = "done"
    /\ Len(axes) = 2
    /\ \E c \in Range(Retained), r \in Rows :
          /\ SeqMin(Plotted(c)) < Plotted(c)[r]
          /\ Plotted(c)[r] < SeqMax(Plotted(c))
          /\ extra_y_ranges[c].start < 0

\* C10: the colour mapper's low is the smallest colour value and its high
\* the largest, so low <= high.
C10_MapperSpansColours ==
    pc \in {"encode", "source", "axes", "finish", "done"} =>
        /\ cmap.low = SeqMin(series[color].vals)
        /\ cmap.high = SeqMax(series[color].vals)
        /\ cmap.low <= cmap.high

====
